---- MODULE Spec2Model ----
(***************************************************************************)
(* Squarified treemap layout (src/squarify/__init__.py).                   *)
(*                                                                         *)
(* The module models normalize_sizes, layout, leftover, worstRatio and the *)
(* recursive driver squarify.  Python's float arithmetic is modelled bit   *)
(* for bit: a float is an IEEE-754 binary64 value held as a sign, a 53-bit *)
(* significand in two limbs and a binary exponent, and `/` is the          *)
(* correctly rounded (round-half-even) quotient.  Weights are integer      *)
(* valued, so that Python's sum() is exact whatever summation it uses.     *)
(***************************************************************************)
EXTENDS Integers, Sequences, FiniteSets

VARIABLES
    pc,        \* "idle", "call" (a squarify frame is about to run), "returned", "raised", "normalized"
    inSizes,   \* the weights passed to the top-level call
    inPt,      \* the origin passed to the top-level call
    inArea,    \* the target extent passed to the top-level call
    sizes,     \* `sizes` of the innermost squarify frame
    pt,        \* `pt` of the innermost squarify frame
    area,      \* `area` of the innermost squarify frame
    pending,   \* layout(current, pt, area) values of the enclosing frames, awaiting `+`
    result,    \* the list returned by the top-level call (<<>> until it returns)
    depth,     \* number of recursive squarify calls made so far
    step,      \* the last frame that ran the split loop: its sizes, pt and area, the
               \* worstRatio of every prefix of its sizes, and the index i it chose
    normed     \* the value returned by normalize_sizes: numerators over the denominator totalSize

vars == <<pc, inSizes, inPt, inArea, sizes, pt, area, pending, result, depth, step, normed>>

----------------------------------------------------------------------------
(* Bounds of the checked input space. *)

MaxN == 3          \* longest normalized weight list
MaxNormDim == 5    \* largest width / height of a target that gets normalized lists
MaxFree == 2       \* longest weight list that need not be normalized
MaxWeight == 9     \* largest weight of such a list of one weight
MaxPairWeight == 4 \* largest weight of such a list of several weights
MaxDim == 7        \* largest target width / height
MaxNeg == 2        \* degenerate targets: widths / heights down to -MaxNeg
MaxOrigin == 5     \* the origins are (0, 0) and (MaxOrigin, MaxOrigin)

----------------------------------------------------------------------------
(* Integer helpers. *)

Abs(n) == IF n < 0 THEN 0 - n ELSE n

Sign(n) == IF n < 0 THEN 0 - 1 ELSE IF n = 0 THEN 0 ELSE 1

RECURSIVE Sum(_)
Sum(s) == IF s = <<>> THEN 0 ELSE Head(s) + Sum(Tail(s))

RECURSIVE BitLen(_)
BitLen(n) == IF n = 0 THEN 0 ELSE 1 + BitLen(n \div 2)

RECURSIVE IsqrtFrom(_, _)
IsqrtFrom(n, k) == IF (k + 1) * (k + 1) > n THEN k ELSE IsqrtFrom(n, k + 1)

\* floor of the square root
Isqrt(n) == IsqrtFrom(n, 0)

----------------------------------------------------------------------------
(* Python floats: binary64.  A non-zero float is sg * (hi * 2^27 + lo) * 2^ex *)
(* with 2^52 <= hi * 2^27 + lo < 2^53; zero has sg = 0.                        *)

Limb == 2 ^ 27

FZero == [sg |-> 0, hi |-> 0, lo |-> 0, ex |-> 0]

\* float(n) for an int n with |n| < 2^26 (exact)
FromInt(n) ==
    IF n = 0 THEN FZero
    ELSE LET L == BitLen(Abs(n))
         IN  [sg |-> Sign(n), hi |-> Abs(n) * 2 ^ (26 - L), lo |-> 0, ex |-> L - 53]

\* two-limb naturals <<hi, lo>>
LimbGeq(a, b) == a[1] > b[1] \/ (a[1] = b[1] /\ a[2] >= b[2])

LimbSub(a, b) ==
    IF a[2] >= b[2] THEN <<a[1] - b[1], a[2] - b[2]>>
    ELSE <<a[1] - b[1] - 1, a[2] + Limb - b[2]>>

LimbDbl(a, bit) == <<2 * a[1] + ((2 * a[2] + bit) \div Limb), (2 * a[2] + bit) % Limb>>

\* restoring division of R by D (R < 2 * D), one quotient bit per round:
\* s = <<R, Q>> is the running remainder and quotient, k the rounds left;
\* yields <<Q, remainder>>
RECURSIVE DivLoop(_, _, _)
DivNext(s1, D, k) ==
    IF k = 1 THEN <<s1[2], s1[1]>>
    ELSE DivLoop(<<LimbDbl(s1[1], 0), s1[2]>>, D, k - 1)

DivLoop(s, D, k) ==
    IF LimbGeq(s[1], D)
    THEN DivNext(<<LimbSub(s[1], D), LimbDbl(s[2], 1)>>, D, k)
    ELSE DivNext(<<s[1], LimbDbl(s[2], 0)>>, D, k)

\* a / b for floats, b non-zero: the quotient rounded to nearest, ties to even
FDiv(a, b) ==
    IF a.sg = 0 THEN FZero
    ELSE LET N    == <<a.hi, a.lo>>
             D    == <<b.hi, b.lo>>
             ge   == LimbGeq(N, D)
             qr   == DivLoop(<<IF ge THEN N ELSE LimbDbl(N, 0), <<0, 0>>>>, D, 53)
             Q    == qr[1]
             twoR == LimbDbl(qr[2], 0)
             up   == IF twoR = D THEN Q[2] % 2 = 1 ELSE LimbGeq(twoR, D)
             Qr   == IF ~up THEN Q
                     ELSE IF Q[2] + 1 < Limb THEN <<Q[1], Q[2] + 1>>
                     ELSE <<Q[1] + 1, 0>>
             e    == a.ex - b.ex - (IF ge THEN 52 ELSE 53)
         IN  IF Qr[1] = Limb \div 2
             THEN [sg |-> a.sg * b.sg, hi |-> Limb \div 4, lo |-> 0, ex |-> e + 1]
             ELSE [sg |-> a.sg * b.sg, hi |-> Qr[1], lo |-> Qr[2], ex |-> e]

\* <<floor(a * 2^c / b), (a * 2^c) mod b>> from <<q, r>> = <<a div b, a mod b>>,
\* at most 14 bits a round (b < 2^17)
RECURSIVE ShiftDiv(_, _, _, _)
ShiftDiv(q, r, b, c) ==
    IF c = 0 THEN <<q, r>>
    ELSE LET k == IF c < 14 THEN c ELSE 14
         IN  ShiftDiv(q * 2 ^ k + (r * 2 ^ k) \div b, (r * 2 ^ k) % b, b, c - k)

\* p / q for ints (|p| < 2^26, 0 < |q| < 2^17): the exact quotient rounded to
\* nearest, ties to even
IntTrueDiv(p, q) ==
    IF p = 0 THEN FZero
    ELSE LET a   == Abs(p)
             b   == Abs(q)
             La  == BitLen(a)
             Lb  == BitLen(b)
             e   == IF a * 2 ^ (26 - La) >= b * 2 ^ (26 - Lb) THEN La - Lb ELSE La - Lb - 1
             t   == 52 - e
             h   == ShiftDiv(a \div b, a % b, b, t - 27)
             d1  == (h[2] * 2 ^ 14) \div b
             r1  == (h[2] * 2 ^ 14) % b
             d2  == (r1 * 2 ^ 13) \div b
             r2  == (r1 * 2 ^ 13) % b
             lo  == d1 * 2 ^ 13 + d2
             up  == IF 2 * r2 = b THEN lo % 2 = 1 ELSE 2 * r2 > b
             Qr  == IF ~up THEN <<h[1], lo>>
                    ELSE IF lo + 1 < Limb THEN <<h[1], lo + 1>>
                    ELSE <<h[1] + 1, 0>>
         IN  IF Qr[1] = Limb \div 2
             THEN [sg |-> Sign(p) * Sign(q), hi |-> Limb \div 4, lo |-> 0, ex |-> 1 - t]
             ELSE [sg |-> Sign(p) * Sign(q), hi |-> Qr[1], lo |-> Qr[2], ex |-> 0 - t]

\* int(x): truncation toward zero
FTrunc(x) ==
    IF x.sg = 0 \/ 0 - x.ex >= 53 THEN 0
    ELSE IF 0 - x.ex >= 27 THEN x.sg * (x.hi \div 2 ^ (0 - x.ex - 27))
    ELSE x.sg * (x.hi * 2 ^ (27 + x.ex) + x.lo \div 2 ^ (0 - x.ex))

\* a < b for floats
FLess(a, b) ==
    LET magLess(p, q) == \/ p.ex < q.ex
                         \/ p.ex = q.ex /\ p.hi < q.hi
                         \/ p.ex = q.ex /\ p.hi = q.hi /\ p.lo < q.lo
    IN  IF a.sg # b.sg THEN a.sg < b.sg
        ELSE IF a.sg = 1 THEN magLess(a, b)
        ELSE IF a.sg = 0 - 1 THEN magLess(b, a)
        ELSE FALSE

\* max(a, b) as Python's max: the first maximal argument
FMax(a, b) == IF FLess(a, b) THEN b ELSE a


----------------------------------------------------------------------------
(* Geometric value types. *)

Point(x, y) == [x |-> x, y |-> y]

Area(width, height) == [width |-> width, height |-> height]

Rect(topleft, a) == [topleft |-> topleft, area |-> a]

\* Area.__add__ with a 2-tuple of ints
AreaAdd(a, t) == Area(t[1] + a.width, t[2] + a.height)

\* Area.__sub__ with a 2-tuple of ints
AreaSub(a, t) == Area(a.width - t[1], a.height - t[2])

\* Point.__add__ with a 2-tuple
PointAdd(p, t) == Point(p.x + t[1], p.y + t[2])

\* Area.__mul__ with an int: both sides scaled by other ** 0.5 and truncated.
\* For the ints of this model int(w * s ** 0.5) is the integer square root of
\* w * w * s, with the sign of w.
AreaMulInt(a, other) ==
    Area(Sign(a.width) * Isqrt(a.width * a.width * other),
         Sign(a.height) * Isqrt(a.height * a.height * other))

----------------------------------------------------------------------------
(* Strip layout.  sum(sizes) / area.height raises ZeroDivisionError when the *)
(* divisor is 0, and size / width when width is 0.0.                         *)

RECURSIVE RowRects(_, _, _, _)
RowRects(ss, p, a, width) ==
    IF ss = <<>> THEN <<>>
    ELSE LET adjust == <<0, FTrunc(FDiv(FromInt(Head(ss)), width))>>
         IN  <<Rect(p, AreaAdd(Area(a.width, 0), adjust))>>
                 \o RowRects(Tail(ss), PointAdd(p, adjust), a, width)

layoutrowRaises(ss, a) == a.height = 0 \/ (ss # <<>> /\ Sum(ss) = 0)

layoutrow(ss, p, a) == RowRects(ss, p, a, IntTrueDiv(Sum(ss), a.height))

RECURSIVE ColRects(_, _, _, _)
ColRects(ss, p, a, height) ==
    IF ss = <<>> THEN <<>>
    ELSE LET adjust == <<FTrunc(FDiv(FromInt(Head(ss)), height)), 0>>
         IN  <<Rect(p, AreaAdd(Area(0, a.height), adjust))>>
                 \o ColRects(Tail(ss), PointAdd(p, adjust), a, height)

layoutcolRaises(ss, a) == a.width = 0 \/ (ss # <<>> /\ Sum(ss) = 0)

layoutcol(ss, p, a) == ColRects(ss, p, a, IntTrueDiv(Sum(ss), a.width))

layoutRaises(ss, a) ==
    IF a.width >= a.height THEN layoutrowRaises(ss, a) ELSE layoutcolRaises(ss, a)

layout(ss, p, a) ==
    IF a.width >= a.height THEN layoutrow(ss, p, a) ELSE layoutcol(ss, p, a)

leftoverrow(ss, p, a) ==
    LET width == FTrunc(IntTrueDiv(Sum(ss), a.height))
    IN  Rect(PointAdd(p, <<width, 0>>), AreaSub(a, <<width, 0>>))

leftovercol(ss, p, a) ==
    LET height == FTrunc(IntTrueDiv(Sum(ss), a.width))
    IN  Rect(PointAdd(p, <<0, height>>), AreaSub(a, <<0, height>>))

\* leftover with the orientation test of a strict comparison
leftover_strict(ss, p, a) ==
    IF a.width > a.height THEN leftoverrow(ss, p, a) ELSE leftovercol(ss, p, a)

leftover(ss, p, a) ==
    IF a.width >= a.height THEN leftoverrow(ss, p, a) ELSE leftovercol(ss, p, a)

----------------------------------------------------------------------------
(* Worst-ratio evaluator. *)

\* the outcome "raises ZeroDivisionError", in the shape of a float so that it
\* can stand where the float result of a call is expected
Err == [sg |-> 2, hi |-> 0, lo |-> 0, ex |-> 0]

\* max(rect.width / rect.height, rect.height / rect.width)
RectRatio(r) ==
    IF r.area.height = 0 \/ r.area.width = 0 THEN Err
    ELSE FMax(IntTrueDiv(r.area.width, r.area.height),
              IntTrueDiv(r.area.height, r.area.width))

\* max() over the ratios of rects[k..], m being the maximum so far
RECURSIVE MaxRatio(_, _, _)
MaxRatio(rects, k, m) ==
    IF m = Err \/ k > Len(rects) THEN m
    ELSE LET q == RectRatio(rects[k])
         IN  IF q = Err THEN Err ELSE MaxRatio(rects, k + 1, FMax(m, q))

worstRatio(ss, p, a) ==
    IF layoutRaises(ss, a) THEN Err
    ELSE LET rects == layout(ss, p, a)
         IN  MaxRatio(rects, 2, RectRatio(rects[1]))

----------------------------------------------------------------------------
(* Normalizer. *)

\* normalize_sizes(sizes, area): one float per size.  An int size makes
\* `size * area` an Area scaled by Area.__mul__, whose product of sides is then
\* divided by totalSize; a float size makes it the float size * width * height.
normalize_sizes(ss, a, asInt) ==
    [k \in 1..Len(ss) |->
        IF asInt
        THEN LET scaled == AreaMulInt(a, ss[k])
             IN  IntTrueDiv(scaled.width * scaled.height, Sum(ss))
        ELSE IntTrueDiv(ss[k] * a.width * a.height, Sum(ss))]

----------------------------------------------------------------------------
(* Squarifier. *)

\* worstRatio(sizes[:j], pt, area) for j = 1, 2, ...: the values the split loop
\* computes, in the order it needs them, up to the one that raises, the pair
\* that makes it break, or the end of its range; ratios holds those of the
\* prefixes shorter than Len(ratios) + 1
RECURSIVE PrefixRatios(_, _, _, _)
PrefixRatios(ss, p, a, ratios) ==
    IF ratios # <<>> /\ ratios[Len(ratios)] = Err THEN ratios
    ELSE IF Len(ratios) >= 2 /\ FLess(ratios[Len(ratios) - 1], ratios[Len(ratios)]) THEN ratios
    ELSE IF Len(ratios) = Len(ss) THEN ratios
    ELSE PrefixRatios(ss, p, a,
                      Append(ratios, worstRatio(SubSeq(ss, 1, Len(ratios) + 1), p, a)))

\* the `for i in range(1, len(sizes))` loop from index i on, ratios[j] being
\* worstRatio(sizes[:j], pt, area): the value of i after the loop, or 0 when one
\* of the worstRatio calls it makes raises
RECURSIVE SplitIndex(_, _)
SplitIndex(ratios, i) ==
    IF ratios[i] = Err \/ ratios[i + 1] = Err THEN 0
    ELSE IF FLess(ratios[i], ratios[i + 1]) THEN i
    ELSE IF i + 1 < Len(ratios) THEN SplitIndex(ratios, i + 1)
    ELSE i

\* current = sizes[:i]
current(ss, i) == SubSeq(ss, 1, i)

\* remaining that skips the weight after the strip: sizes[i + 1:]
remaining_skip(ss, i) == SubSeq(ss, i + 2, Len(ss))

\* remaining that keeps the last weight of the strip: sizes[i - 1:]
remaining_keep(ss, i) == SubSeq(ss, i, Len(ss))

\* remaining = sizes[i:]
remaining(ss, i) == SubSeq(ss, i + 1, Len(ss))

NoStep == [sizes |-> <<>>, pt |-> Point(0, 0), area |-> Area(0, 0), ratios |-> <<>>, i |-> 0]

----------------------------------------------------------------------------
(* The inputs of a run. *)

Dims == (0 - MaxNeg)..MaxDim

Origins == {Point(0, 0), Point(MaxOrigin, MaxOrigin)}

\* non-increasing lists of up to MaxFree weights: one weight in 1..MaxWeight,
\* several weights in 1..MaxPairWeight
FreeSizes ==
    UNION {{ss \in [1..n -> 1..(IF n = 1 THEN MaxWeight ELSE MaxPairWeight)] :
                \A k \in 1..(n - 1) : ss[k] >= ss[k + 1]} :
           n \in 0..MaxFree}

\* non-increasing lists of n positive weights that sum to total
RECURSIVE Partitions(_, _, _)
Partitions(total, n, cap) ==
    IF n = 1 THEN (IF total >= 1 /\ total <= cap THEN {<<total>>} ELSE {})
    ELSE UNION {{<<w>> \o rest : rest \in Partitions(total - w, n - 1, w)} :
                w \in 1..(IF cap < total - (n - 1) THEN cap ELSE total - (n - 1))}

\* the lists of up to MaxN weights normalized to the target a
NormSizes(a) ==
    IF a.width \in 1..MaxNormDim /\ a.height \in 1..MaxNormDim
    THEN UNION {Partitions(a.width * a.height, n, a.width * a.height) : n \in 1..MaxN}
    ELSE {}

Init ==
    /\ pc = "idle"
    /\ inArea \in {Area(w, h) : w \in Dims, h \in Dims}
    /\ inSizes \in FreeSizes \cup NormSizes(inArea)
    /\ inPt \in Origins
    /\ sizes = <<>>
    /\ pt = Point(0, 0)
    /\ area = Area(0, 0)
    /\ pending = <<>>
    /\ result = <<>>
    /\ depth = 0
    /\ step = NoStep
    /\ normed = [asInt |-> FALSE, values |-> <<>>]

----------------------------------------------------------------------------
(* Operations. *)

\* normalize_sizes(inSizes, inArea), the sizes given as ints or as floats
Normalize ==
    /\ pc = "idle"
    /\ \E asInt \in BOOLEAN :
           normed' = [asInt |-> asInt, values |-> normalize_sizes(inSizes, inArea, asInt)]
    /\ pc' = "normalized"
    /\ UNCHANGED <<inSizes, inPt, inArea, sizes, pt, area, pending, result, depth, step>>

\* squarify(inSizes, inPt, inArea) is called: pt = Point(*PTorX), area = Area(*areaOrY)
CallSquarify ==
    /\ pc = "idle"
    /\ pc' = "call"
    /\ sizes' = inSizes
    /\ pt' = inPt
    /\ area' = inArea
    /\ UNCHANGED <<inSizes, inPt, inArea, pending, result, depth, step, normed>>

\* `if not sizes: return []`
SquarifyEmpty ==
    /\ pc = "call"
    /\ sizes = <<>>
    /\ pc' = "returned"
    /\ result' = pending
    /\ UNCHANGED <<inSizes, inPt, inArea, sizes, pt, area, pending, depth, step, normed>>

\* `if len(sizes) == 1: return layout(sizes, pt, area)`; the enclosing frames
\* then prepend their strips, or the exception passes through them
SquarifySingle ==
    /\ pc = "call"
    /\ Len(sizes) = 1
    /\ IF layoutRaises(sizes, area)
       THEN pc' = "raised" /\ result' = result
       ELSE pc' = "returned" /\ result' = pending \o layout(sizes, pt, area)
    /\ UNCHANGED <<inSizes, inPt, inArea, sizes, pt, area, pending, depth, step, normed>>

\* the split loop, leftover, layout(current, pt, area) and the recursive call
SquarifySplit ==
    /\ pc = "call"
    /\ Len(sizes) >= 2
    /\ \E ratios \in {PrefixRatios(sizes, pt, area, <<>>)} : \E i \in {SplitIndex(ratios, 1)} :
           /\ step' = [sizes |-> sizes, pt |-> pt, area |-> area, ratios |-> ratios, i |-> i]
           /\ IF i = 0
              THEN /\ pc' = "raised"
                   /\ UNCHANGED <<sizes, pt, area, pending, depth>>
              ELSE LET rest == leftover(current(sizes, i), pt, area)
                   IN  /\ pc' = "call"
                       /\ pending' = pending \o layout(current(sizes, i), pt, area)
                       /\ sizes' = remaining(sizes, i)
                       /\ pt' = rest.topleft
                       /\ area' = rest.area
                       /\ depth' = depth + 1
    /\ UNCHANGED <<inSizes, inPt, inArea, result, normed>>

Next ==
    \/ Normalize
    \/ CallSquarify
    \/ SquarifyEmpty
    \/ SquarifySingle
    \/ SquarifySplit

Spec == Init /\ [][Next]_vars

----------------------------------------------------------------------------
(* Properties. *)

W == inArea.width

H == inArea.height

\* the precondition of squarify: positive weights, sorted descending, summing
\* to the area of a target with positive sides
ValidInput ==
    /\ inSizes # <<>>
    /\ W > 0 /\ H > 0
    /\ \A k \in 1..Len(inSizes) : inSizes[k] > 0
    /\ \A k \in 1..(Len(inSizes) - 1) : inSizes[k] >= inSizes[k + 1]
    /\ Sum(inSizes) = W * H

Min(m, n) == IF m < n THEN m ELSE n

Max(m, n) == IF m < n THEN n ELSE m

\* two rectangles share interior area
Overlap(r, q) ==
    /\ Max(r.topleft.x, q.topleft.x)
         < Min(r.topleft.x + r.area.width, q.topleft.x + q.area.width)
    /\ Max(r.topleft.y, q.topleft.y)
         < Min(r.topleft.y + r.area.height, q.topleft.y + q.area.height)

\* r lies inside the rectangle (p, a)
Inside(r, p, a) ==
    /\ r.area.width >= 0 /\ r.area.height >= 0
    /\ p.x <= r.topleft.x /\ r.topleft.x + r.area.width <= p.x + a.width
    /\ p.y <= r.topleft.y /\ r.topleft.y + r.area.height <= p.y + a.height

RECURSIVE TotalArea(_)
TotalArea(rects) ==
    IF rects = <<>> THEN 0
    ELSE Head(rects).area.width * Head(rects).area.height + TotalArea(Tail(rects))

\* C1: for a valid input the returned rectangles tile the target: no two of
\* them share interior area and each of them lies inside the target.
C1_Tiling ==
    (pc = "returned" /\ ValidInput) =>
        /\ \A j \in 1..Len(result) : \A k \in (j + 1)..Len(result) :
               ~Overlap(result[j], result[k])
        /\ \A j \in 1..Len(result) : Inside(result[j], inPt, inArea)

\* C2: for a valid input the areas of the returned rectangles sum to the area
\* of the target, within n * (width + height) for n rectangles.
C2_AreaConserved ==
    (pc = "returned" /\ ValidInput) =>
        Abs(TotalArea(result) - W * H) <= Len(result) * (W + H)

\* C3: whenever squarify returns, it returns exactly one rectangle per weight
\* (none for the empty list).
C3_CountPreserved == pc = "returned" => Len(result) = Len(inSizes)

\* a call with at least three weights has returned through two nested calls
C3_Witness == pc = "returned" /\ Len(inSizes) >= 3 /\ depth >= 2 /\ Len(result) >= 3

\* C4: a single positive weight, normalized or not, in a target with positive
\* sides yields exactly one rectangle, equal to (origin, extent).
C4_SingleFills ==
    (pc = "returned" /\ Len(inSizes) = 1 /\ W > 0 /\ H > 0) =>
        result = <<Rect(inPt, inArea)>>

\* C5: normalize returns, for every weight w, the float w * width * height /
\* sum(weights), whether the weights are ints or floats.
C5_Normalized ==
    pc = "normalized" =>
        \A k \in 1..Len(inSizes) :
            normed.values[k] = IntTrueDiv(inSizes[k] * W * H, Sum(inSizes))

\* C6: a squarify call (top-level or recursive) that has weights to lay out
\* in a target of non-positive width or height ends in an error.
C6_DegenerateRaises ==
    [][(pc = "call" /\ sizes # <<>> /\ (area.width <= 0 \/ area.height <= 0))
          => pc' = "raised"]_vars

\* C7: the strip length k chosen by a step with n >= 2 weights is in 1..n,
\* every j < k has worstRatio(sizes[:j]) >= worstRatio(sizes[:j+1]), and k = n
\* or worstRatio(sizes[:k]) < worstRatio(sizes[:k+1]).
C7_StripChoice ==
    step.i > 0 =>
        /\ step.i \in 1..Len(step.sizes)
        /\ \A j \in 1..(step.i - 1) : ~FLess(step.ratios[j], step.ratios[j + 1])
        /\ \/ step.i = Len(step.sizes)
           \/ FLess(step.ratios[step.i], step.ratios[step.i + 1])

\* C8: for the prefixes of a valid input, in its target, worstRatio returns a
\* value >= 1.0 and never fails.
C8_WorstRatioDefined ==
    (ValidInput /\ step.sizes = inSizes /\ step.area = inArea) =>
        \A j \in 1..Len(step.ratios) :
            step.ratios[j] # Err /\ ~FLess(step.ratios[j], FromInt(1))

C10_Terminates ==
    /\ depth + Len(sizes) <= Len(inSizes)
    /\ inSizes # <<>> => depth + 1 <= Len(inSizes)

\* the third nested call of a call with three weights is about to run
C10_Witness == pc = "call" /\ depth = 2 /\ Len(sizes) = 1 /\ Len(inSizes) = 3

====
